---- MODULE Spec2Model ----
(***************************************************************************)
(* Credential verification and role-scoped visibility of the ALS admin     *)
(* console: the login route handler (POST), the students page's barangay   *)
(* filter, the admin-management page, the login form and the protected     *)
(* layout.                                                                 *)
(***************************************************************************)
EXTENDS Integers, Sequences, FiniteSets, Bags, TLC

VARIABLES
    users,          \* the "users" collection of database "main": a sequence of documents
    nodeEnv,        \* process.env.NODE_ENV
    pc,             \* position of the POST handler
    body,           \* the request body as req.json() will yield it
    userData,       \* POST: the array the lookup returned
    response,       \* POST: the NextResponse returned, <<>> while none
    connectCalls,   \* POST: number of times clientPromise was awaited
    lookupCalls,    \* POST: number of find({ email }) queries issued
    verifyCalls,    \* POST: number of bcrypt.compareSync calls
    storeFault,     \* POST: the store fault this request met, "none" if none
    user,           \* auth store: state.auth.user, <<>> for null, <<u>> for a User
    barangays,      \* student store: the loaded barangays
    tabs,           \* StudentsPage: the barangays handed to BarangayTabs
    location,       \* the route the browser shows
    pendingNav,     \* the target of a router.push or redirect not yet completed, "" if none
    admins,         \* AdminManagementPage: the admins state
    isLoading,      \* AdminManagementPage: the isLoading state
    isCreateDialogOpen, \* AdminManagementPage: the create dialog is open
    isEditDialogOpen,   \* AdminManagementPage: the edit dialog is open
    editingAdmin,   \* AdminManagementPage: <<>> for null, <<admin>> when editing
    isSubmitting,   \* AdminManagementPage: a create or edit submission is running
    submitError,    \* AdminManagementPage: "" for null, else the message shown
    nextId,         \* the _id the store gives the next account it creates
    submits,        \* number of create, edit and delete requests sent so far
    tasks,          \* AdminManagementPage: the bag of async handlers suspended on an await
    deleteCalls,    \* the last authService.deleteStoredUser invocation, <<>> before any
    lastConfirm,    \* the answer to the last confirm() prompt, "none" before any
    deniedCall,     \* an authService method was invoked for a user that is no master_admin
    session,        \* the session cookie: <<>> for none, <<id>> for the account it is bound to
    authError,      \* auth store: state.auth.error, "" for null
    submitting,     \* LoginForm: <<data>> while onSubmit is suspended on login(data), else <<>>
    reloads,        \* LoginForm: number of window.location.reload() calls
    loginResults,   \* how the login calls of the form settled, oldest first
    content,        \* ProtectedLayout: what is rendered, "none" or "children"
    lastRequest,    \* the last request to a protected route and the identity it was served for
    nav,            \* ProtectedLayout: navItems as the mounted layout rendered it, <<>> when not mounted
    initializing,   \* ProtectedLayout: the initialize() its effect called has not settled
    formInitializing, \* LoginForm: the initialize() its effect called has not settled
    reloading,      \* LoginForm: window.location.reload() was called, the page not yet replaced
    logoutsPending, \* ProtectedLayout: number of handleLogout calls suspended on logout()
    logoutResults,  \* how the logout calls of the layout settled, oldest first
    pushes,         \* ProtectedLayout: number of router.push('/login') calls of handleLogout
    createRole,     \* createForm: the value of the role field
    createBarangay  \* createForm: the value of the assignedBarangayId field

loginVars == <<nodeEnv, pc, body, userData, response,
               connectCalls, lookupCalls, verifyCalls, storeFault>>
studentsVars == <<barangays, tabs>>
navVars == <<location, pendingNav>>
pageVars == <<admins, isLoading, isCreateDialogOpen, isEditDialogOpen,
              editingAdmin, isSubmitting, submitError>>
callVars == <<deleteCalls, lastConfirm, nextId, submits, deniedCall>>
createFormVars == <<createRole, createBarangay>>
adminVars == <<navVars, pageVars, tasks, callVars, createFormVars>>
formVars == <<authError, submitting, reloads, loginResults>>
layoutVars == <<content, lastRequest, nav, initializing>>
logoutVars == <<logoutsPending, logoutResults, pushes>>
sessionVars == <<session, formVars, layoutVars, logoutVars, formInitializing,
                 reloading>>

vars == <<users, user, loginVars, studentsVars, adminVars, sessionVars>>

(***************************************************************************)
(* Bounds                                                                  *)
(***************************************************************************)
MaxUsers == 2       \* documents in the users collection
MaxBarangays == 3   \* barangays the student store holds
MaxSubmits == 1     \* create, edit and delete requests the page sends
MaxLogins == 2      \* submissions of the login form
MaxLogouts == 2     \* clicks on the logout button
MaxFormSubmits == 2 \* create and edit requests followed on the forms of the page
MaxStale == 0       \* handlers of earlier mounts still suspended when the page is opened
\* handlers of the admin page suspended at once: the requests and one loadData
MaxInFlight == MaxSubmits + 1

(***************************************************************************)
(* JavaScript values of a JSON body                                        *)
(***************************************************************************)
JsUndefined == [type |-> "undefined", val |-> ""]
JsStr(s) == [type |-> "string", val |-> s]
JsNum(n) == [type |-> "number", val |-> n]
\* a query-operator object such as { "$ne": null }
JsObj(s) == [type |-> "object", val |-> s]

\* JavaScript truthiness, as used by `!email` and `!password`
Truthy(v) ==
    CASE v.type = "undefined" -> FALSE
      [] v.type = "string" -> v.val # ""
      [] v.type = "number" -> v.val # "0"
      [] OTHER -> TRUE

(***************************************************************************)
(* The credential store                                                    *)
(***************************************************************************)
UserRole == {"master_admin", "admin"}
BarangayIds == {"BrgyA", "BrgyB"}
\* assignedBarangayId is optional: "" stands for an absent or empty value
NoBarangay == ""

StoredEmails == {"a@x.com", "b@x.com"}

\* bcrypt.hashSync: one-way, tagged so that a hash is never its plaintext
BcryptHash(p) == "$2a$" \o p

StoredHashes == {BcryptHash("pw1"), BcryptHash("pw2")}

\* the email of the account at position i of a store with one account per email
EmailAt(i) == "u" \o ToString(i) \o "@x.com"

\* role and assignment combinations a stored document may carry
RoleScopes == {<<"master_admin", NoBarangay>>, <<"admin", "BrgyA">>,
               <<"admin", NoBarangay>>}

\* the User document at position i of the collection
User(i, e, h, rs) ==
    [_id |-> i, email |-> e, password |-> h, role |-> rs[1],
     assignedBarangayId |-> rs[2]]

\* the contents the collection may have; nothing in the handler keeps emails
\* unique
Collections ==
    UNION {[1..n -> [email : StoredEmails, password : StoredHashes,
                     rs : RoleScopes]] : n \in 0..MaxUsers}

AsUsers(s) == [i \in DOMAIN s |-> User(i, s[i].email, s[i].password, s[i].rs)]

\* MongoDB's match of the filter { email } against one document
MatchesEmail(email, doc) ==
    CASE email.type = "string" -> doc.email = email.val
      [] email.type = "object" -> TRUE     \* { "$ne": null }
      [] OTHER -> FALSE

\* db.collection("users").find({ email }).toArray()
FindByEmail(coll, email) == SelectSeq(coll, LAMBDA d : MatchesEmail(email, d))

\* bcrypt.compareSync(s, hash): "throw" on a non-string argument
CompareSync(s, hash) ==
    IF s.type # "string" THEN "throw"
    ELSE IF hash = BcryptHash(s.val) THEN "true" ELSE "false"

(***************************************************************************)
(* Requests                                                                *)
(***************************************************************************)
EmailValues == {JsUndefined, JsStr(""), JsStr("a@x.com"), JsStr("A@x.com"),
                JsStr("b@x.com"), JsStr("nobody@x.com"), JsObj("$ne")}
PasswordValues == {JsUndefined, JsStr(""), JsStr("pw1"), JsStr("wrong"),
                   JsNum("123")}

\* kind "unparseable": req.json() rejects; "null": the JSON text null
Bodies ==
    {[kind |-> "unparseable", email |-> JsUndefined, password |-> JsUndefined],
     [kind |-> "null", email |-> JsUndefined, password |-> JsUndefined]}
    \cup [kind : {"object"}, email : EmailValues, password : PasswordValues]

NoBody == [kind |-> "none", email |-> JsUndefined, password |-> JsUndefined]

(***************************************************************************)
(* Responses of POST                                                       *)
(***************************************************************************)
\* NextResponse.json(payload, { status }); a key whose value is undefined is
\* dropped by JSON serialisation
Failure(status, error) ==
    [status |-> status, payload |-> [success |-> FALSE, error |-> error]]

FailureWithDetails(status, error, details) ==
    IF nodeEnv = "development"
    THEN [status |-> status,
          payload |-> [success |-> FALSE, error |-> error, details |-> details]]
    ELSE Failure(status, error)

InvalidBodyResponse == Failure(400, "Invalid request body")
EmailRequiredResponse == Failure(400, "Email is required")
PasswordRequiredResponse == Failure(400, "Password is required")

ConnectionFailedResponse(msg) ==
    FailureWithDetails(500,
        "Database connection failed. Please check your MongoDB configuration.", msg)

\* a failed query taken for an empty result
QueryFailedResponse_AsNotFound(msg) == Failure(404, "User not found")

QueryFailedResponse(msg) == FailureWithDetails(500, "Database query failed.", msg)

\* an unknown email answered like a wrong password
NotFoundResponse_AsBadPassword == Failure(401, "Invalid Password")

NotFoundResponse == Failure(404, "User not found")
\* a failed verification answered with the default status
BadPasswordResponse_DefaultStatus ==
    [status |-> 200, payload |-> [success |-> FALSE, error |-> "Invalid Password"]]

BadPasswordResponse == Failure(401, "Invalid Password")

\* the outer catch: the exception's own message is the caller-facing error
UnexpectedResponse(msg) == FailureWithDetails(500, msg, "stack: " \o msg)

SuccessResponse(doc) == [status |-> 200, payload |-> [success |-> TRUE, data |-> doc]]

\* messages of the exceptions the handler can meet
ConnectFaults == {"connect-reject", "client-null"}
ConnectMessage(f) ==
    IF f = "client-null" THEN "MongoDB client is not initialized"
    ELSE "connect ECONNREFUSED mongodb://db:27017"
QueryMessage == "MongoServerError: query failed"
BcryptMessage(s) == "Illegal arguments: " \o s.type \o ", string"

(***************************************************************************)
(* POST: the login route handler, one action per await                     *)
(***************************************************************************)
\* the parts of the system taking no step in a specification
StudentsIdle == user = <<>> /\ barangays = <<>> /\ tabs = <<>>

AdminIdle ==
    /\ location = "/login"
    /\ pendingNav = ""
    /\ admins = <<>>
    /\ isLoading = TRUE
    /\ isCreateDialogOpen = FALSE
    /\ isEditDialogOpen = FALSE
    /\ editingAdmin = <<>>
    /\ isSubmitting = FALSE
    /\ submitError = ""
    /\ tasks = EmptyBag
    /\ deleteCalls = <<>>
    /\ lastConfirm = "none"
    /\ deniedCall = FALSE
    /\ createRole = "admin"
    /\ createBarangay = NoBarangay
    /\ nextId = Len(users) + 1
    /\ submits = 0

\* nobody is signed in and no protected route was requested
NoRequest == [kind |-> "none", validation |-> "none", used |-> <<>>, actual |-> <<>>]

NoSession ==
    /\ session = <<>>
    /\ authError = ""
    /\ submitting = <<>>
    /\ reloads = 0
    /\ loginResults = <<>>
    /\ content = "none"
    /\ lastRequest = NoRequest
    /\ nav = <<>>
    /\ initializing = FALSE
    /\ logoutsPending = 0
    /\ logoutResults = <<>>
    /\ pushes = 0
    /\ reloading = FALSE

\* LoginForm is not mounted either
SessionIdle == NoSession /\ formInitializing = FALSE

LoginInit ==
    /\ users \in {AsUsers(s) : s \in Collections}
    /\ StudentsIdle
    /\ AdminIdle
    /\ SessionIdle
    /\ nodeEnv \in {"development", "production"}
    /\ pc = "idle"
    /\ body = NoBody
    /\ userData = <<>>
    /\ response = <<>>
    /\ connectCalls = 0
    /\ lookupCalls = 0
    /\ verifyCalls = 0
    /\ storeFault = "none"

\* a request arrives; the handler suspends on req.json()
Receive ==
    /\ pc = "idle"
    /\ \E b \in Bodies : body' = b
    /\ pc' = "json"
    /\ UNCHANGED <<user, studentsVars, adminVars, sessionVars>>
    /\ UNCHANGED <<users, nodeEnv, userData, response, connectCalls,
                   lookupCalls, verifyCalls, storeFault>>

\* Validate with the password check left out
Validate_NoPasswordCheck(b) ==
    IF b.kind = "unparseable" THEN <<InvalidBodyResponse>>
    ELSE IF ~Truthy(b.email) THEN <<EmailRequiredResponse>>
    ELSE <<>>

\* lines 8-36: the validation the handler does before it touches the store
Validate(b) ==
    IF b.kind = "unparseable" THEN <<InvalidBodyResponse>>
    ELSE IF ~Truthy(b.email) THEN <<EmailRequiredResponse>>
    ELSE IF ~Truthy(b.password) THEN <<PasswordRequiredResponse>>
    ELSE <<>>

\* req.json() settles; validation; then the handler suspends on clientPromise
ParseAndValidate ==
    /\ pc = "json"
    /\ IF Validate(body) # <<>>
       THEN /\ response' = Validate(body)[1]
            /\ pc' = "done"
            /\ UNCHANGED connectCalls
       ELSE /\ pc' = "connect"
            /\ connectCalls' = connectCalls + 1
            /\ UNCHANGED response
    /\ UNCHANGED <<user, studentsVars, adminVars, sessionVars>>
    /\ UNCHANGED <<users, nodeEnv, body, userData, lookupCalls, verifyCalls,
                   storeFault>>

\* the handler awaiting the connection again after a store fault
AfterStoreFault_Retry == "connect"

\* lines 46-57, 64-75: each catch of a store fault returns its response; the
\* handler has no loop and awaits nothing again
AfterStoreFault == "done"

\* lines 38-57: clientPromise rejects, or resolves to no client
ConnectFails ==
    /\ pc = "connect"
    /\ \E f \in ConnectFaults :
         /\ storeFault' = f
         /\ response' = ConnectionFailedResponse(ConnectMessage(f))
    /\ pc' = AfterStoreFault
    /\ UNCHANGED <<user, studentsVars, adminVars, sessionVars>>
    /\ UNCHANGED <<users, nodeEnv, body, userData, connectCalls, lookupCalls,
                   verifyCalls>>

\* lines 59-63: clientPromise resolves; the query is issued and awaited
ConnectOk ==
    /\ pc = "connect"
    /\ pc' = "query"
    /\ lookupCalls' = lookupCalls + 1
    /\ UNCHANGED <<user, studentsVars, adminVars, sessionVars>>
    /\ UNCHANGED <<users, nodeEnv, body, userData, response, connectCalls,
                   verifyCalls, storeFault>>

\* lines 64-75: the query rejects
QueryFails ==
    /\ pc = "query"
    /\ storeFault' = "query-throw"
    /\ response' = QueryFailedResponse(QueryMessage)
    /\ pc' = AfterStoreFault
    /\ UNCHANGED <<user, studentsVars, adminVars, sessionVars>>
    /\ UNCHANGED <<users, nodeEnv, body, userData, connectCalls, lookupCalls,
                   verifyCalls>>

\* Decide without the existence check: an empty result fails verification
Decide_NoExistenceCheck(found, password) ==
    IF Len(found) = 0 THEN BadPasswordResponse
    ELSE CASE CompareSync(password, found[1].password) = "throw"
                -> UnexpectedResponse(BcryptMessage(password))
           [] CompareSync(password, found[1].password) = "false"
                -> BadPasswordResponse
           [] OTHER -> SuccessResponse(found[1])

\* lines 77-108: what the handler answers once the lookup returned `found`
Decide(found, password) ==
    IF Len(found) = 0 THEN NotFoundResponse
    ELSE CASE CompareSync(password, found[1].password) = "throw"
                -> UnexpectedResponse(BcryptMessage(password))
           [] CompareSync(password, found[1].password) = "false"
                -> BadPasswordResponse
           [] OTHER -> SuccessResponse(found[1])

\* the verifier run whatever the lookup returned
VerifierRuns_Always(found) == TRUE

\* lines 78-85: bcrypt.compareSync is reached only past the return taken when
\* userData.length === 0
VerifierRuns(found) == Len(found) # 0

\* the matched accounts removed by the handler
StoreAfterLookup_Consumed(coll, found) ==
    SelectSeq(coll, LAMBDA d : \A i \in DOMAIN found : found[i] # d)

\* lines 59-94: find() is the only call the handler makes on the collection
StoreAfterLookup(coll, found) == coll

\* lines 63, 77-94: the query resolves; existence check, verification, answer
QueryOk ==
    /\ pc = "query"
    /\ users' = StoreAfterLookup(users, FindByEmail(users, body.email))
    /\ userData' = FindByEmail(users, body.email)
    /\ verifyCalls' = IF VerifierRuns(userData') THEN verifyCalls + 1 ELSE verifyCalls
    /\ response' = Decide(userData', body.password)
    /\ pc' = "done"
    /\ UNCHANGED <<user, studentsVars, adminVars, sessionVars>>
    /\ UNCHANGED <<nodeEnv, body, connectCalls, lookupCalls, storeFault>>

NextLogin ==
    \/ Receive
    \/ ParseAndValidate
    \/ ConnectFails
    \/ ConnectOk
    \/ QueryFails
    \/ QueryOk

SpecLogin == LoginInit /\ [][NextLogin]_vars

\* every promise the handler awaits (req.json(), clientPromise, toArray())
\* settles, so a handler that can go on does
SpecLoginLive == SpecLogin /\ WF_vars(NextLogin)

(***************************************************************************)
(* StudentsPage: the barangay tabs a user is shown                         *)
(***************************************************************************)
\* ids of the barangays the student store may hold
LoadedBarangayIds == BarangayIds \cup {"BrgyC"}

BarangayLists == UNION {[1..n -> LoadedBarangayIds] : n \in 0..MaxBarangays}

Barangay(id) == [_id |-> id, name |-> "Barangay " \o id]

\* the users the auth store may hold: null, or a User of either role with
\* any, or no, assigned barangay
AuthUsers ==
    {<<>>} \cup
    {<<User(1, "a@x.com", BcryptHash("pw1"), <<r, b>>)>> :
        r \in UserRole, b \in BarangayIds \cup {NoBarangay}}

\* filteredBarangays with every role restricted to its assignment
filteredBarangays_IgnoreRole(u, bs) ==
    IF u # <<>> /\ u[1].assignedBarangayId # NoBarangay
    THEN SelectSeq(bs, LAMBDA b : b._id = u[1].assignedBarangayId)
    ELSE bs

\* lines 107-110: filter barangays based on user role
filteredBarangays(u, bs) ==
    IF u # <<>> /\ u[1].role = "admin" /\ u[1].assignedBarangayId # NoBarangay
    THEN SelectSeq(bs, LAMBDA b : b._id = u[1].assignedBarangayId)
    ELSE bs

LoginIdle ==
    /\ nodeEnv = "production"
    /\ pc = "idle"
    /\ body = NoBody
    /\ userData = <<>>
    /\ response = <<>>
    /\ connectCalls = 0
    /\ lookupCalls = 0
    /\ verifyCalls = 0
    /\ storeFault = "none"

(***************************************************************************)
(* The auth store and the router, as the pages use them                    *)
(***************************************************************************)
\* the redirect effect's condition inverted
RedirectNeeded_Inverted(u) == u # <<>> /\ u[1].role = "master_admin"

\* admin/page.tsx lines 104-108: `user && user.role !== "master_admin"`
RedirectNeeded(u) == u # <<>> /\ u[1].role # "master_admin"

\* the redirect effect of AdminManagementPage, run on mount and whenever
\* `user` changes: router.push("/dashboard") replaces any pending navigation
RedirectEffect(u, pending) == IF RedirectNeeded(u) THEN "/dashboard" ELSE pending

StudentsInit ==
    /\ users = <<>>
    /\ LoginIdle
    /\ AdminIdle
    /\ SessionIdle
    /\ user = <<>>
    /\ barangays = <<>>
    /\ tabs = filteredBarangays(user, barangays)

\* the users a session of the admin page may hold: null and one of each role
SessionUsers ==
    {<<>>, <<User(1, EmailAt(1), BcryptHash("pw1"), <<"master_admin", NoBarangay>>)>>,
     <<User(2, EmailAt(2), BcryptHash("pw1"), <<"admin", "BrgyA">>)>>}

\* the auth store resolves, replaces or clears its user; the pages that read
\* it render again and the effects depending on `user` run
SetAuthUser(candidates) ==
    /\ \E u \in candidates : user' = u
    /\ user' # user
    /\ tabs' = filteredBarangays(user', barangays)
    /\ pendingNav' = IF location = "/admin" THEN RedirectEffect(user', pendingNav)
                     ELSE pendingNav
    /\ UNCHANGED <<users, loginVars, sessionVars, createFormVars, barangays, location, pageVars, tasks,
                   callVars>>

\* any user, as the students page may see it
AuthUserChanges == SetAuthUser(AuthUsers)

\* a user, as the admin page may see it
SessionUserChanges == SetAuthUser(SessionUsers)

\* the student store finishes loading barangays; the page renders again
BarangaysLoaded ==
    /\ \E l \in BarangayLists : barangays' = [i \in DOMAIN l |-> Barangay(l[i])]
    /\ barangays' # barangays
    /\ tabs' = filteredBarangays(user, barangays')
    /\ UNCHANGED <<users, user, loginVars, sessionVars, adminVars>>

NextStudents ==
    \/ AuthUserChanges
    \/ BarangaysLoaded

SpecStudents == StudentsInit /\ [][NextStudents]_vars

(***************************************************************************)
(* AdminManagementPage                                                     *)
(***************************************************************************)
\* the credential store the admin page starts from: one account of each role
SeedUsers ==
    <<User(1, EmailAt(1), BcryptHash("pw1"), <<"master_admin", NoBarangay>>),
      User(2, EmailAt(2), BcryptHash("pw1"), <<"admin", "BrgyA">>)>>

\* what fetchBarangays loads
AllBarangays == <<Barangay("BrgyA"), Barangay("BrgyB")>>

\* the role the store holds for id, "absent" when it holds no such account
RoleInStore(coll, id) ==
    IF \E j \in DOMAIN coll : coll[j]._id = id
    THEN coll[CHOOSE j \in DOMAIN coll : coll[j]._id = id].role
    ELSE "absent"

\* authService.deleteStoredUser, from the contract of account deletion: the
\* account is removed and true returned, unless it is absent or a master_admin
DeleteStoredUser(coll, id) ==
    IF RoleInStore(coll, id) \in {"absent", "master_admin"}
    THEN [success |-> FALSE, coll |-> coll]
    ELSE [success |-> TRUE, coll |-> SelectSeq(coll, LAMBDA d : d._id # id)]

\* register without the uniqueness check: the account is always added
Register_NoUniqueCheck(coll, id, data) ==
    [error |-> "",
     coll |-> Append(coll, User(id, data.email, BcryptHash(data.password),
                                <<data.role, data.assignedBarangayId>>))]

\* authService.register, from the contract of account creation: the store
\* keeps one account per email; a taken email is a uniqueness violation
Register(coll, id, data) ==
    IF \E j \in DOMAIN coll : coll[j].email = data.email
    THEN [error |-> "Email already exists", coll |-> coll]
    ELSE [error |-> "",
          coll |-> Append(coll, User(id, data.email, BcryptHash(data.password),
                                     <<data.role, data.assignedBarangayId>>))]

\* authService.updateStoredUser, from the contract of account update and of
\* the store: the fields given replace those of the account with that _id;
\* false when there is none; the store keeps one account per email, so an
\* email another account holds is a uniqueness violation
UpdateStoredUser(coll, upd) ==
    IF RoleInStore(coll, upd._id) = "absent"
    THEN [success |-> FALSE, error |-> "", coll |-> coll]
    ELSE IF \E j \in DOMAIN coll : coll[j]._id # upd._id /\ coll[j].email = upd.email
    THEN [success |-> FALSE, error |-> "Email already exists", coll |-> coll]
    ELSE [success |-> TRUE, error |-> "",
          coll |-> [j \in DOMAIN coll |->
                      IF coll[j]._id = upd._id
                      THEN [coll[j] EXCEPT !.email = upd.email,
                                           !.assignedBarangayId = upd.assignedBarangayId]
                      ELSE coll[j]]]

\* what the create form can submit once registerSchema accepted it
CreateData ==
    {[email |-> e, password |-> "pw1", role |-> rs[1], assignedBarangayId |-> rs[2]] :
        e \in {EmailAt(1), "new@x.com"},
        rs \in {<<"master_admin", NoBarangay>>, <<"admin", "BrgyA">>}}

\* emails typed into the email input of the edit form: one an account holds
\* and one no account holds
TypedEmails == {EmailAt(1), "new@x.com"}

\* lines 90-100, 209-217, 785-885: what the edit form can submit for `admin`,
\* of the fields an account keeps here: the prefilled email or one of `typed`
\* (the form has no resolver), and the prefilled assignment or for a regular
\* admin one chosen in the select
EditData(admin, typed) ==
    {[email |-> e, assignedBarangayId |-> b] :
        e \in {admin.email} \cup typed,
        b \in {admin.assignedBarangayId} \cup
              (IF admin.role = "admin" THEN {"BrgyB"} ELSE {})}

\* what an awaited authService call can throw: an Error or another value
Thrown == {[isError |-> TRUE, message |-> "Network error"],
           [isError |-> FALSE, message |-> ""]}

\* how an awaited authService call settles apart from its own answer: <<>>
\* when nothing else fails, <<thrown>> when the call throws
Faults == {<<>>} \cup {<<x>> : x \in Thrown}

\* a uniqueness violation of the store as the Error the service throws
StoreError(message) == [isError |-> TRUE, message |-> message]

\* lines 156-158, 184-186: error instanceof Error ? error.message : fallback
ErrorMessage(thrown, fallback) ==
    IF thrown.isError THEN thrown.message ELSE fallback

\* the delete button rendered on every row
DeleteButtonShown_Always(admin) == TRUE

\* lines 671-680: the delete button of a row of the admins table
DeleteButtonShown(admin) == admin.role # "master_admin"

\* line 50 and the calls of authService in lines 130, 149, 171 and 196: the
\* page makes them whoever `user` is; whether one was made for another
\* identity than a master_admin is kept
Invoked(denied, u) == denied \/ ~(u # <<>> /\ u[1].role = "master_admin")

\* a handler reaches an await, goes on to its next await, or returns
Start(B, t) == B (+) SetToBag({t})
Finish(B, t) == B (-) SetToBag({t})
Advance(B, t, stage) == Finish(B, t) (+) SetToBag({[t EXCEPT !.stage = stage]})

\* the page unmounts: every suspended handler loses its component
Unmounted(B) ==
    LET dead == {[t EXCEPT !.live = FALSE] : t \in BagToSet(B)}
    IN  [d \in dead |-> CopiesIn(d, B) + CopiesIn([d EXCEPT !.live = TRUE], B)]

\* a handler suspended on an await; live: its component is still mounted
Task(kind, stage, id, data) ==
    [kind |-> kind, stage |-> stage, id |-> id, data |-> data, live |-> TRUE]

AdminInit ==
    /\ users = SeedUsers
    /\ LoginIdle
    /\ StudentsIdle
    /\ AdminIdle
    /\ SessionIdle

\* the browser opens /admin: the page mounts with its initial state and its
\* effects run: the redirect effect, and loadData up to `await fetchBarangays()`;
\* every handler still suspended then is one of an earlier mount
OpenAdminPage ==
    /\ location # "/admin"
    /\ BagCardinality(tasks) <= MaxStale
    /\ location' = "/admin"
    /\ pendingNav' = RedirectEffect(user, "")
    /\ admins' = <<>>
    /\ isLoading' = TRUE
    /\ isCreateDialogOpen' = FALSE
    /\ isEditDialogOpen' = FALSE
    /\ editingAdmin' = <<>>
    /\ isSubmitting' = FALSE
    /\ submitError' = ""
    /\ createRole' = "admin"
    /\ createBarangay' = NoBarangay
    /\ tasks' = Start(tasks, Task("loadData", "barangays", 0, <<>>))
    /\ UNCHANGED <<users, user, loginVars, sessionVars, studentsVars, callVars>>

\* a pending router.push completes: the admin page unmounts; its suspended
\* handlers go on, their state updates now without effect
NavigationCompletes ==
    /\ pendingNav # ""
    /\ location' = pendingNav
    /\ pendingNav' = ""
    /\ tasks' = Unmounted(tasks)
    /\ UNCHANGED <<users, user, loginVars, sessionVars, createFormVars, studentsVars, pageVars, callVars>>

\* lines 112-119: fetchBarangays settles; loadData goes on to loadAdmins, which
\* suspends on authService.getStoredUsers()
LoadDataFetchedBarangays ==
    \E t \in BagToSet(tasks) :
        /\ t.kind = "loadData" /\ t.stage = "barangays"
        /\ barangays' = AllBarangays
        /\ tabs' = filteredBarangays(user, barangays')
        /\ tasks' = Advance(tasks, t, "admins")
        /\ deniedCall' = Invoked(deniedCall, user)
        /\ UNCHANGED <<users, user, loginVars, sessionVars, createFormVars, navVars, pageVars, deleteCalls,
                       lastConfirm, nextId, submits>>

\* lines 128-135: loadAdmins once getStoredUsers settled: setAdmins(users), or
\* the error caught and logged
loadAdmins(current, live, threw) == IF live /\ ~threw THEN users ELSE current

\* a state update of a handler: without effect once the page is unmounted
SetState(live, current, value) == IF live THEN value ELSE current

\* lines 119-121: getStoredUsers settles; loadAdmins and then loadData finish
LoadDataLoadedAdmins ==
    \E t \in BagToSet(tasks), threw \in BOOLEAN :
        /\ t.kind = "loadData" /\ t.stage = "admins"
        /\ admins' = loadAdmins(admins, t.live, threw)
        /\ isLoading' = SetState(t.live, isLoading, FALSE)
        /\ tasks' = Finish(tasks, t)
        /\ UNCHANGED <<users, user, loginVars, sessionVars, createFormVars, studentsVars, navVars, callVars,
                       isCreateDialogOpen, isEditDialogOpen, editingAdmin,
                       isSubmitting, submitError>>

\* lines 239-245: the create dialog is opened by its trigger or dismissed
CreateDialogOpenChange ==
    /\ location = "/admin"
    /\ isCreateDialogOpen' = ~isCreateDialogOpen
    /\ UNCHANGED <<users, user, loginVars, sessionVars, createFormVars, studentsVars, navVars, tasks, callVars,
                   admins, isLoading, isEditDialogOpen, editingAdmin,
                   isSubmitting, submitError>>

\* buttons that stay enabled during a submission
ButtonsDisabled_Never(busy) == FALSE

\* lines 518-538, 894-914: disabled={isSubmitting} on the cancel and submit
\* buttons of both dialogs
ButtonsDisabled(busy) == busy

\* lines 519-526: the Cancel button of the create dialog
CancelCreate ==
    /\ location = "/admin"
    /\ isCreateDialogOpen /\ ~ButtonsDisabled(isSubmitting)
    /\ isCreateDialogOpen' = FALSE
    /\ createRole' = "admin"
    /\ createBarangay' = NoBarangay
    /\ submitError' = ""
    /\ UNCHANGED <<users, user, loginVars, sessionVars, studentsVars, navVars, tasks, callVars,
                   admins, isLoading, isEditDialogOpen, editingAdmin, isSubmitting>>

\* lines 144-149: the create form is submitted with one of `candidates`;
\* authService.register(data) is invoked and awaited; at most `limit`
\* service calls are followed
SubmitCreate(candidates, limit) ==
    \E data \in candidates :
        /\ location = "/admin"
        /\ isCreateDialogOpen /\ ~ButtonsDisabled(isSubmitting)
        /\ BagCardinality(tasks) < MaxInFlight
        /\ submits < limit
        /\ submits' = submits + 1
        /\ isSubmitting' = TRUE
        /\ submitError' = ""
        /\ tasks' = Start(tasks, Task("create", "registering", 0, <<data>>))
        /\ deniedCall' = Invoked(deniedCall, user)
        /\ UNCHANGED <<users, user, loginVars, sessionVars, createFormVars, studentsVars, navVars, deleteCalls,
                       lastConfirm, nextId, admins, isLoading, isCreateDialogOpen, isEditDialogOpen,
                       editingAdmin>>

\* the form submitted with any values registerSchema accepts
handleCreateAdmin == SubmitCreate(CreateData, MaxSubmits)

\* the role change leaving the assignment as it is
ClearedByRole_Never(role, brgy) == brgy

\* lines 81-88: the effect on watchedRole: a role of master_admin clears
\* assignedBarangayId
ClearedByRole(role, brgy) == IF role = "master_admin" THEN NoBarangay ELSE brgy

\* line 480: the assignment select is rendered for role admin only
BarangaySelectShown(role) == role = "admin"

\* lines 442-452: a role is chosen in the role select; the page renders again
\* and the effect on watchedRole runs
RoleSelected ==
    \E r \in UserRole :
        /\ location = "/admin"
        /\ isCreateDialogOpen /\ ~isSubmitting
        /\ r # createRole
        /\ createRole' = r
        /\ createBarangay' = ClearedByRole(r, createBarangay)
        /\ UNCHANGED <<users, user, loginVars, sessionVars, studentsVars, navVars,
                       pageVars, tasks, callVars>>

\* lines 486-509: a barangay is chosen in the assignment select
BarangaySelected ==
    \E i \in DOMAIN barangays :
        /\ location = "/admin"
        /\ isCreateDialogOpen /\ ~isSubmitting
        /\ BarangaySelectShown(createRole)
        /\ barangays[i]._id # createBarangay
        /\ createBarangay' = barangays[i]._id
        /\ UNCHANGED <<users, user, loginVars, sessionVars, studentsVars, navVars,
                       pageVars, tasks, callVars, createRole>>

\* lines 63-78: what the form submits: its role and assignment fields and
\* the other fields as typed; an admin without assignment is not accepted
FormCreateData ==
    {[email |-> e, password |-> "pw1", role |-> createRole,
      assignedBarangayId |-> createBarangay] :
        e \in IF createRole = "admin" /\ createBarangay = NoBarangay
              THEN {} ELSE {EmailAt(1), "new@x.com"}}

\* the form submitted with the values its fields hold
handleCreateAdminOfForm == SubmitCreate(FormCreateData, MaxFormSubmits)

\* the statements after the awaited call running whatever its outcome
CreateContinues_Always(failed) == TRUE

\* lines 148-155: inside the try block the statements after
\* `await authService.register(data)` run only when it did not throw
CreateContinues(failed) == ~failed

\* lines 149-159: register settles: on success loadAdmins is awaited; when it
\* throws, the message is shown and the submission ends
RegisterSettles ==
    \E t \in BagToSet(tasks), fault \in Faults :
        /\ t.kind = "create" /\ t.stage = "registering"
        /\ LET r == Register(users, nextId, t.data[1])
               thrown == IF fault # <<>> THEN fault
                         ELSE IF r.error # "" THEN <<StoreError(r.error)>>
                         ELSE <<>>
               failed == thrown # <<>>
               message == IF failed
                          THEN ErrorMessage(thrown[1], "Failed to create admin")
                          ELSE ""
           IN  /\ users' = IF fault # <<>> THEN users ELSE r.coll
               /\ nextId' = IF failed THEN nextId ELSE nextId + 1
               /\ tasks' = IF CreateContinues(failed)
                           THEN Advance(tasks, t, "reloading")
                           ELSE Finish(tasks, t)
               /\ submitError' = IF failed
                                 THEN SetState(t.live, submitError, message)
                                 ELSE submitError
               /\ isSubmitting' = IF failed
                                  THEN SetState(t.live, isSubmitting, FALSE)
                                  ELSE isSubmitting
               /\ deniedCall' = IF failed THEN deniedCall
                                 ELSE Invoked(deniedCall, user)
        /\ UNCHANGED <<user, loginVars, sessionVars, createFormVars, studentsVars, navVars, deleteCalls,
                       lastConfirm, submits, admins, isLoading, isCreateDialogOpen,
                       isEditDialogOpen, editingAdmin>>

\* lines 150-159: the list is reloaded, the dialog closed and the form reset
CreateReloaded ==
    \E t \in BagToSet(tasks), threw \in BOOLEAN :
        /\ t.kind = "create" /\ t.stage = "reloading"
        /\ admins' = loadAdmins(admins, t.live, threw)
        /\ isCreateDialogOpen' = SetState(t.live, isCreateDialogOpen, FALSE)
        /\ createRole' = SetState(t.live, createRole, "admin")
        /\ createBarangay' = SetState(t.live, createBarangay, NoBarangay)
        /\ isSubmitting' = SetState(t.live, isSubmitting, FALSE)
        /\ tasks' = Finish(tasks, t)
        /\ UNCHANGED <<users, user, loginVars, sessionVars, studentsVars, navVars, callVars,
                       isLoading, isEditDialogOpen, editingAdmin, submitError>>

\* lines 206-219: the edit button of a row
openEditDialog ==
    \E i \in DOMAIN admins :
        /\ location = "/admin"
        /\ ~isLoading
        /\ editingAdmin' = <<admins[i]>>
        /\ isEditDialogOpen' = TRUE
        /\ editingAdmin' # editingAdmin \/ ~isEditDialogOpen
        /\ UNCHANGED <<users, user, loginVars, sessionVars, createFormVars, studentsVars, navVars, tasks,
                       callVars, admins, isLoading, isCreateDialogOpen,
                       isSubmitting, submitError>>

\* line 705: the edit dialog is dismissed
EditDialogDismissed ==
    /\ location = "/admin"
    /\ isEditDialogOpen
    /\ isEditDialogOpen' = FALSE
    /\ UNCHANGED <<users, user, loginVars, sessionVars, createFormVars, studentsVars, navVars, tasks, callVars,
                   admins, isLoading, isCreateDialogOpen, editingAdmin,
                   isSubmitting, submitError>>

\* lines 894-901: the Cancel button of the edit dialog
CancelEdit ==
    /\ location = "/admin"
    /\ isEditDialogOpen /\ ~ButtonsDisabled(isSubmitting)
    /\ isEditDialogOpen' = FALSE
    /\ editingAdmin' = <<>>
    /\ submitError' = ""
    /\ UNCHANGED <<users, user, loginVars, sessionVars, createFormVars, studentsVars, navVars, tasks, callVars,
                   admins, isLoading, isCreateDialogOpen, isSubmitting>>

\* lines 163-174: the edit form is submitted, its email prefilled or one of
\* `typed`; without an editingAdmin the handler returns, else
\* authService.updateStoredUser is invoked and awaited; at most `limit`
\* service calls are followed
SubmitEdit(typed, limit) ==
    /\ location = "/admin"
    /\ isEditDialogOpen /\ ~ButtonsDisabled(isSubmitting)
    /\ BagCardinality(tasks) < MaxInFlight
    /\ submits < limit
    /\ IF editingAdmin = <<>>
       THEN UNCHANGED <<isSubmitting, submitError, tasks, submits, deniedCall>>
       ELSE \E data \in EditData(editingAdmin[1], typed) :
               /\ submits' = submits + 1
               /\ isSubmitting' = TRUE
               /\ submitError' = ""
               /\ tasks' = Start(tasks, Task("edit", "updating",
                                              editingAdmin[1]._id, <<data>>))
               /\ deniedCall' = Invoked(deniedCall, user)
    /\ UNCHANGED <<users, user, loginVars, sessionVars, createFormVars, studentsVars, navVars, deleteCalls,
                   lastConfirm, nextId,
                   admins, isLoading, isCreateDialogOpen, isEditDialogOpen,
                   editingAdmin>>

\* the edit form submitted, its email as prefilled or any typed
handleEditAdmin == SubmitEdit(TypedEmails, MaxSubmits)

\* the edit form submitted on the page of the create form, any email typed
handleEditAdminOfForm == SubmitEdit(TypedEmails, MaxFormSubmits)

\* lines 171-188: updateStoredUser settles: on success loadAdmins is awaited;
\* on false the submission just ends; when it throws the message is shown
UpdateSettles ==
    \E t \in BagToSet(tasks), fault \in Faults :
        /\ t.kind = "edit" /\ t.stage = "updating"
        /\ LET r == UpdateStoredUser(users,
                        [_id |-> t.id,
                         email |-> t.data[1].email,
                         assignedBarangayId |-> t.data[1].assignedBarangayId])
               thrown == IF fault # <<>> THEN fault
                         ELSE IF r.error # "" THEN <<StoreError(r.error)>>
                         ELSE <<>>
               goesOn == thrown = <<>> /\ r.success
           IN  /\ users' = IF fault # <<>> THEN users ELSE r.coll
               /\ tasks' = IF goesOn THEN Advance(tasks, t, "reloading")
                           ELSE Finish(tasks, t)
               /\ submitError' = IF thrown # <<>>
                                 THEN SetState(t.live, submitError,
                                               ErrorMessage(thrown[1],
                                                            "Failed to update admin"))
                                 ELSE submitError
               /\ isSubmitting' = IF goesOn THEN isSubmitting
                                  ELSE SetState(t.live, isSubmitting, FALSE)
               /\ deniedCall' = IF goesOn
                                 THEN Invoked(deniedCall, user)
                                 ELSE deniedCall
        /\ UNCHANGED <<user, loginVars, sessionVars, createFormVars, studentsVars, navVars, deleteCalls,
                       lastConfirm, nextId, submits, admins,
                       isLoading, isCreateDialogOpen, isEditDialogOpen,
                       editingAdmin>>

\* lines 177-188: the list is reloaded, the dialog closed and the form reset
EditReloaded ==
    \E t \in BagToSet(tasks), threw \in BOOLEAN :
        /\ t.kind = "edit" /\ t.stage = "reloading"
        /\ admins' = loadAdmins(admins, t.live, threw)
        /\ isEditDialogOpen' = SetState(t.live, isEditDialogOpen, FALSE)
        /\ editingAdmin' = SetState(t.live, editingAdmin, <<>>)
        /\ isSubmitting' = SetState(t.live, isSubmitting, FALSE)
        /\ tasks' = Finish(tasks, t)
        /\ UNCHANGED <<users, user, loginVars, sessionVars, createFormVars, studentsVars, navVars, callVars,
                       isLoading, isCreateDialogOpen, submitError>>

\* the handler going on whatever the prompt answered
DeleteProceeds_Always(confirmed) == TRUE

\* line 193: if (!confirm(...)) return
DeleteProceeds(confirmed) == confirmed

\* lines 192-196: a click on a row's delete button; confirm(); when confirmed
\* authService.deleteStoredUser(adminId) is invoked and awaited; at most
\* `limit` service calls are followed
DeleteClicked(limit) ==
    \E i \in DOMAIN admins, confirmed \in BOOLEAN :
        /\ location = "/admin"
        /\ ~isLoading
        /\ DeleteButtonShown(admins[i])
        /\ BagCardinality(tasks) < MaxInFlight
        /\ submits < limit
        /\ lastConfirm' = IF confirmed THEN "confirmed" ELSE "declined"
        /\ IF DeleteProceeds(confirmed)
           THEN /\ submits' = submits + 1
                /\ deleteCalls' = <<[id |-> admins[i]._id,
                                     role |-> RoleInStore(users, admins[i]._id)]>>
                /\ tasks' = Start(tasks, Task("delete", "deleting", admins[i]._id, <<>>))
                /\ deniedCall' = Invoked(deniedCall, user)
           ELSE UNCHANGED <<deleteCalls, tasks, submits, deniedCall>>
        /\ UNCHANGED <<users, user, loginVars, sessionVars, createFormVars, studentsVars, navVars, pageVars,
                       nextId>>

handleDeleteAdmin == DeleteClicked(MaxSubmits)

\* a delete button clicked on the page of the create form
handleDeleteAdminOfForm == DeleteClicked(MaxFormSubmits)

\* lines 196-202: deleteStoredUser settles; on success loadAdmins is called
DeleteSettles ==
    \E t \in BagToSet(tasks), threw \in BOOLEAN :
        /\ t.kind = "delete" /\ t.stage = "deleting"
        /\ LET r == DeleteStoredUser(users, t.id) IN
           IF threw
           THEN /\ tasks' = Finish(tasks, t)
                /\ UNCHANGED <<users, deniedCall>>
           ELSE /\ users' = r.coll
                /\ tasks' = IF r.success
                            THEN Advance(tasks, t, "reloading")
                            ELSE Finish(tasks, t)
                /\ deniedCall' = IF r.success
                                  THEN Invoked(deniedCall, user)
                                  ELSE deniedCall
        /\ UNCHANGED <<user, loginVars, sessionVars, createFormVars, studentsVars, navVars, pageVars,
                       deleteCalls, lastConfirm, nextId, submits>>

\* line 198: the loadAdmins called after a successful delete finishes
DeleteReloaded ==
    \E t \in BagToSet(tasks), threw \in BOOLEAN :
        /\ t.kind = "delete" /\ t.stage = "reloading"
        /\ admins' = loadAdmins(admins, t.live, threw)
        /\ tasks' = Finish(tasks, t)
        /\ UNCHANGED <<users, user, loginVars, sessionVars, createFormVars, studentsVars, navVars, callVars,
                       isLoading, isCreateDialogOpen, isEditDialogOpen,
                       editingAdmin, isSubmitting, submitError>>

NextAdmin ==
    \/ SessionUserChanges
    \/ OpenAdminPage
    \/ NavigationCompletes
    \/ LoadDataFetchedBarangays
    \/ LoadDataLoadedAdmins
    \/ CreateDialogOpenChange
    \/ CancelCreate
    \/ handleCreateAdmin
    \/ RegisterSettles
    \/ CreateReloaded
    \/ openEditDialog
    \/ EditDialogDismissed
    \/ CancelEdit
    \/ handleEditAdmin
    \/ UpdateSettles
    \/ EditReloaded
    \/ handleDeleteAdmin
    \/ DeleteSettles
    \/ DeleteReloaded

SpecAdmin == AdminInit /\ [][NextAdmin]_vars

(***************************************************************************)
(* Two consoles creating accounts at once                                  *)
(***************************************************************************)
\* a master_admin is signed in on this console
RegisterInit ==
    /\ users = SeedUsers
    /\ LoginIdle
    /\ AdminIdle
    /\ SessionIdle
    /\ barangays = <<>> /\ tabs = <<>>
    /\ user = <<User(1, EmailAt(1), BcryptHash("pw1"), <<"master_admin", NoBarangay>>)>>

\* lines 144-149 on the page of another console: its create form is submitted
\* and authService.register(data) awaited; its state updates are not this page's
RemoteCreateAdmin ==
    \E data \in CreateData :
        /\ BagCardinality(tasks) < MaxInFlight
        /\ tasks' = Start(tasks, [Task("create", "registering", 0, <<data>>)
                                  EXCEPT !.live = FALSE])
        /\ UNCHANGED <<users, user, loginVars, sessionVars, createFormVars, studentsVars, navVars, pageVars,
                       callVars>>

NextRegister ==
    \/ OpenAdminPage
    \/ LoadDataFetchedBarangays
    \/ LoadDataLoadedAdmins
    \/ CreateDialogOpenChange
    \/ handleCreateAdmin
    \/ RemoteCreateAdmin
    \/ RegisterSettles
    \/ CreateReloaded

SpecRegister == RegisterInit /\ [][NextRegister]_vars

(***************************************************************************)
(* The create and edit dialogs of a master_admin, field by field           *)
(***************************************************************************)
\* the steps in which an awaited authService call settles
SettleForms ==
    \/ LoadDataFetchedBarangays
    \/ LoadDataLoadedAdmins
    \/ RegisterSettles
    \/ CreateReloaded
    \/ UpdateSettles
    \/ EditReloaded
    \/ DeleteSettles
    \/ DeleteReloaded

NextForms ==
    \/ OpenAdminPage
    \/ CreateDialogOpenChange
    \/ CancelCreate
    \/ RoleSelected
    \/ BarangaySelected
    \/ handleCreateAdminOfForm
    \/ openEditDialog
    \/ EditDialogDismissed
    \/ CancelEdit
    \/ handleEditAdminOfForm
    \/ handleDeleteAdminOfForm
    \/ SettleForms

SpecForms == RegisterInit /\ [][NextForms]_vars

(***************************************************************************)
(* The create and edit submissions of a master_admin, one after another    *)
(***************************************************************************)
\* the create form submitted with any values registerSchema accepts
handleCreateAdminAgain == SubmitCreate(CreateData, MaxFormSubmits)

\* the steps in which an awaited call of loadData or of a submission settles
SettleSubmissions ==
    \/ LoadDataFetchedBarangays
    \/ LoadDataLoadedAdmins
    \/ RegisterSettles
    \/ CreateReloaded
    \/ UpdateSettles
    \/ EditReloaded

NextSubmissions ==
    \/ OpenAdminPage
    \/ CreateDialogOpenChange
    \/ CancelCreate
    \/ handleCreateAdminAgain
    \/ openEditDialog
    \/ EditDialogDismissed
    \/ CancelEdit
    \/ handleEditAdminOfForm
    \/ SettleSubmissions

\* every authService call the page awaits settles
SpecSubmissionsLive ==
    RegisterInit /\ [][NextSubmissions]_vars /\ WF_vars(SettleSubmissions)

(***************************************************************************)
(* LoginForm and ProtectedLayout: signing in and requesting protected      *)
(* routes                                                                  *)
(***************************************************************************)
\* part_002 lines 24-35: what the form submits once loginSchema accepted it
LoginData ==
    [email : {EmailAt(1), EmailAt(2), "nobody@x.com"}, password : {"pw1", "wrong"}]

\* the login action of the auth store, from the contract of a login attempt:
\* the credentials go to the login route, whose answer decides the outcome
login(coll, data, fault) ==
    IF fault THEN QueryFailedResponse(QueryMessage)
    ELSE Decide(FindByEmail(coll, JsStr(data.email)), JsStr(data.password))

\* the reload done whether login resolved or rejected
ReloadAfterLogin_Always(resolved, n) == n + 1

\* part_002 lines 39-52: window.location.reload() follows `await login(data)`
\* inside the try; a rejection goes to the catch, which only logs
ReloadAfterLogin(resolved, n) == IF resolved THEN n + 1 ELSE n

\* part_002 lines 59-63: the error box of the form, <<>> when not rendered
ErrorBox(error) == IF error # "" THEN <<error>> ELSE <<>>

\* initialize of the auth store, from the contract of session validation: the
\* identity is re-read from the current account; none when there is no
\* session or its account no longer exists
initialize(sess, coll) ==
    IF sess = <<>> \/ RoleInStore(coll, sess[1]) = "absent" THEN <<>>
    ELSE <<coll[CHOOSE j \in DOMAIN coll : coll[j]._id = sess[1]]>>

\* an awaited initialize() settling, from the contract of session validation:
\* resolved, the store holds the identity validated; rejected, the validation
\* has failed and the store is left as it was
Initialized(u, sess, coll, threw) ==
    IF threw THEN [user |-> u, resolved |-> FALSE]
    ELSE [user |-> initialize(sess, coll), resolved |-> TRUE]

\* how far the validation of the session is, as the guard sees it
Validation(pending, resolved) ==
    IF pending THEN "pending" ELSE IF resolved THEN "ok" ELSE "failed"

\* ProtectedRoute, from the contract of the route guard: nothing protected is
\* rendered while the session is being validated; after that its children are
\* rendered for a validation that resolved an identity only, else nothing is
\* rendered and a redirect to /login is started
ProtectedRoute(u, validation, children) ==
    IF validation = "pending" THEN [content |-> "none", redirect |-> FALSE]
    ELSE IF validation = "ok" /\ u # <<>>
    THEN [content |-> children, redirect |-> FALSE]
    ELSE [content |-> "none", redirect |-> TRUE]

\* the layout rendering its children outside the guard
ProtectedLayout_Unguarded(u, validation) ==
    [content |-> "children", redirect |-> FALSE]

\* part_000 lines 274-276, 514-520: everything the layout renders, the page
\* included, is inside <ProtectedRoute>
ProtectedLayout(u, validation) == ProtectedRoute(u, validation, "children")

\* part_000 lines 224-229: routes of the sidebar, rendered as the children
ProtectedPaths == {"/dashboard", "/students"}

\* what a request is served for: the account id, role and assignment
Identity(u) ==
    IF u = <<>> THEN <<>>
    ELSE <<[id |-> u[1]._id, role |-> u[1].role,
            assignedBarangayId |-> u[1].assignedBarangayId]>>

\* part_002 lines 16-21: the browser shows /login: LoginForm has mounted and
\* its effect has called initialize()
SessionInit ==
    /\ users = SeedUsers
    /\ LoginIdle
    /\ StudentsIdle
    /\ AdminIdle
    /\ NoSession
    /\ formInitializing = TRUE

\* part_002 lines 38-44: the mounted form is submitted, a reload of the page
\* under way or not: clearError(), then login(data) is awaited
onSubmit ==
    \E data \in LoginData :
        /\ location = "/login"
        /\ submitting = <<>>
        /\ Len(loginResults) < MaxLogins
        /\ authError' = ""
        /\ submitting' = <<data>>
        /\ UNCHANGED <<users, user, loginVars, studentsVars, adminVars, session,
                       reloads, loginResults, layoutVars, logoutVars,
                       formInitializing, reloading>>

\* part_002 lines 44-52: login(data) settles: resolved,
\* window.location.reload() is called, which starts the reload and returns,
\* the form still mounted; rejected, the store keeps the error and the catch
\* logs it
LoginSettles ==
    \E fault \in BOOLEAN :
        /\ submitting # <<>>
        /\ LET r == login(users, submitting[1], fault)
               resolved == r.status = 200
           IN  /\ user' = IF resolved THEN <<r.payload.data>> ELSE user
               /\ session' = IF resolved THEN <<r.payload.data._id>> ELSE session
               /\ authError' = IF resolved THEN "" ELSE r.payload.error
               /\ reloads' = ReloadAfterLogin(resolved, reloads)
               /\ loginResults' = Append(loginResults,
                                         IF resolved THEN "resolved" ELSE "rejected")
               /\ reloading' = IF reloads' # reloads THEN TRUE ELSE reloading
        /\ submitting' = <<>>
        /\ UNCHANGED <<users, loginVars, studentsVars, adminVars, layoutVars,
                       logoutVars, formInitializing>>

\* part_002 lines 16-21, 48: the reload started by window.location.reload()
\* completes: the page is replaced, which discards the handlers still
\* suspended in it and the navigation it had started, and LoginForm mounts
\* again, its effect calling initialize()
ReloadCompletes ==
    /\ reloading
    /\ reloading' = FALSE
    /\ submitting' = <<>>
    /\ logoutsPending' = 0
    /\ pendingNav' = ""
    /\ formInitializing' = TRUE
    /\ UNCHANGED <<users, user, loginVars, studentsVars, location, pageVars,
                   tasks, callVars, createFormVars, session, authError, reloads,
                   loginResults, layoutVars, logoutResults, pushes>>

\* part_002 lines 18-21: the initialize() called by the effect of LoginForm
\* settles: resolved, the store holds the identity validated
FormInitializeSettles ==
    \E threw \in BOOLEAN :
        /\ formInitializing
        /\ user' = Initialized(user, session, users, threw).user
        /\ formInitializing' = FALSE
        /\ UNCHANGED <<users, loginVars, studentsVars, adminVars, session,
                       formVars, layoutVars, logoutVars, reloading>>

\* part_000 lines 224-229: the entries every user is offered
commonNavItems ==
    <<[name |-> "Dashboard", href |-> "/dashboard"],
      [name |-> "Student Master List", href |-> "/students"],
      [name |-> "Student Score Summary", href |-> "/progress"],
      [name |-> "Settings", href |-> "/settings"]>>

\* part_000 lines 232-234: the entries of a master_admin
masterAdminNavItems == <<[name |-> "Admin Management", href |-> "/admin"]>>

\* every entry offered whoever is signed in
navItems_ForAll(u) == commonNavItems \o masterAdminNavItems

\* part_000 lines 251-253: user?.role === 'master_admin' decides the list
navItems(u) ==
    IF u # <<>> /\ u[1].role = "master_admin"
    THEN commonNavItems \o masterAdminNavItems
    ELSE commonNavItems

\* part_000 lines 246-253, 274-276: one render of the mounted layout for the
\* user the store holds: the navigation list, what the guard lets through and
\* whether the guard starts a redirect to /login
Render(u, validation) ==
    LET shown == ProtectedLayout(u, validation)
    IN  [content |-> shown.content, redirect |-> shown.redirect,
         nav |-> navItems(u)]

\* the navigation pending after a render: a redirect of the guard is to /login
Redirected(redirect, pending) == IF redirect THEN "/login" ELSE pending

\* part_000 lines 246-262: the browser loads a protected route, whatever the
\* page before was doing: the layout mounts and renders for the user the
\* store holds, then its effect calls initialize(); the handlers suspended in
\* the page before, an awaited login() included, and the reload or navigation
\* it had started are discarded with it
ProtectedRequest ==
    \E path \in ProtectedPaths :
        /\ LET r == Render(user, Validation(TRUE, FALSE))
           IN  /\ content' = r.content
               /\ nav' = r.nav
               /\ pendingNav' = Redirected(r.redirect, "")
        /\ location' = path
        /\ initializing' = TRUE
        /\ formInitializing' = FALSE
        /\ reloading' = FALSE
        /\ submitting' = <<>>
        /\ logoutsPending' = 0
        /\ lastRequest' = [kind |-> "load", validation |-> "pending",
                           used |-> <<>>, actual |-> <<>>]
        /\ UNCHANGED <<users, user, loginVars, studentsVars, pageVars,
                       tasks, callVars, createFormVars, session, authError,
                       reloads, loginResults, logoutResults, pushes>>

\* part_000 lines 246-262: the initialize() of the mount settles, the
\* rejection of the un-awaited call caught by nobody: the layout, still
\* mounted on the route it was loaded for, renders again; after a validation
\* that failed the guard renders nothing and starts the redirect to /login
InitializeSettles ==
    \E threw \in BOOLEAN :
        /\ initializing
        /\ LET s == Initialized(user, session, users, threw)
               r == Render(s.user, Validation(FALSE, s.resolved))
           IN  /\ user' = s.user
               /\ content' = r.content
               /\ nav' = r.nav
               /\ pendingNav' = Redirected(r.redirect, pendingNav)
               /\ lastRequest' =
                      [kind |-> "load",
                       validation |-> IF s.resolved /\ s.user # <<>> THEN "ok"
                                      ELSE "failed",
                       used |-> IF s.resolved THEN Identity(s.user) ELSE <<>>,
                       actual |-> Identity(initialize(session, users))]
        /\ initializing' = FALSE
        /\ UNCHANGED <<users, loginVars, studentsVars, location, pageVars, tasks,
                       callVars, createFormVars, session, formVars, logoutVars,
                       formInitializing, reloading>>

\* part_000 lines 224-229, 246: a Link of the sidebar is followed inside the
\* mounted layout: the page changes and the layout renders for the user the
\* store holds; initialize() is not called
ClientNavigation ==
    \E path \in ProtectedPaths :
        /\ content = "children"
        /\ location \in ProtectedPaths /\ path # location
        /\ LET r == Render(user, Validation(initializing, TRUE))
           IN  /\ content' = r.content
               /\ nav' = r.nav
               /\ pendingNav' = Redirected(r.redirect, pendingNav)
        /\ location' = path
        /\ lastRequest' = [kind |-> "link", validation |-> "none",
                           used |-> Identity(user),
                           actual |-> Identity(initialize(session, users))]
        /\ UNCHANGED <<users, user, loginVars, studentsVars, pageVars,
                       tasks, callVars, createFormVars, session, formVars,
                       initializing, logoutVars, formInitializing, reloading>>

\* logout of the auth store, from the lifecycle of a session: the session is
\* destroyed at logout; a logout that throws leaves it as it was
logout(u, sess, threw) ==
    IF threw THEN [user |-> u, session |-> sess, resolved |-> FALSE]
    ELSE [user |-> <<>>, session |-> <<>>, resolved |-> TRUE]

\* the navigation done whether logout resolved or threw
LogoutPushes_Always(resolved) == TRUE

\* part_000 lines 266-271: router.push('/login') follows `await logout()`
\* inside the try; a rejection goes to the catch, which only logs
LogoutPushes(resolved) == resolved

\* part_000 lines 265-267, 435-436: the logout button of the rendered layout
\* is clicked, whether or not an earlier logout() is still awaited, and
\* logout() awaited
handleLogout ==
    /\ content = "children"
    /\ Len(logoutResults) + logoutsPending < MaxLogouts
    /\ logoutsPending' = logoutsPending + 1
    /\ UNCHANGED <<users, user, loginVars, studentsVars, adminVars, session,
                   formVars, layoutVars, logoutResults, pushes, formInitializing,
                   reloading>>

\* part_000 lines 246-253, 267-271: one awaited logout() settles; resolved,
\* router.push('/login') is called, which starts the navigation and returns,
\* the browser still on the route it shows; the layout, when still mounted,
\* renders again for the user the store now holds
LogoutSettles ==
    \E threw \in BOOLEAN :
        /\ logoutsPending > 0
        /\ LET r == logout(user, session, threw)
               pushed == LogoutPushes(r.resolved)
               again == IF location = "/login"
                        THEN [content |-> content, redirect |-> FALSE, nav |-> nav]
                        ELSE Render(r.user, Validation(initializing, TRUE))
           IN  /\ user' = r.user
               /\ session' = r.session
               /\ pushes' = IF pushed THEN pushes + 1 ELSE pushes
               /\ pendingNav' = IF pushed THEN "/login"
                                ELSE Redirected(again.redirect, pendingNav)
               /\ content' = again.content
               /\ nav' = again.nav
               /\ logoutResults' = Append(logoutResults,
                                          IF r.resolved THEN "resolved" ELSE "rejected")
        /\ logoutsPending' = logoutsPending - 1
        /\ UNCHANGED <<users, loginVars, studentsVars, location, pageVars, tasks,
                       callVars, createFormVars, formVars, lastRequest,
                       initializing, formInitializing, reloading>>

\* part_000 line 268, part_002 lines 16-21: the navigation to /login started
\* by router.push or by the guard completes: the layout unmounts, its
\* suspended handlers going on, and LoginForm mounts, its effect calling
\* initialize(); a browser already on /login stays as it is
LoginNavigationCompletes ==
    /\ pendingNav = "/login"
    /\ location' = "/login"
    /\ pendingNav' = ""
    /\ content' = "none"
    /\ nav' = <<>>
    /\ formInitializing' = IF location # "/login" THEN TRUE ELSE formInitializing
    /\ UNCHANGED <<users, user, loginVars, studentsVars, pageVars, tasks,
                   callVars, createFormVars, session, formVars, lastRequest,
                   initializing, logoutVars, reloading>>

\* admin/page.tsx lines 171, 196: on another console an account's email or
\* assignment is changed or the account deleted
AccountChanges ==
    \E j \in DOMAIN users :
        /\ \/ users' = DeleteStoredUser(users, users[j]._id).coll
           \/ \E data \in EditData(users[j], TypedEmails) :
                 users' = UpdateStoredUser(users,
                              [_id |-> users[j]._id,
                               email |-> data.email,
                               assignedBarangayId |-> data.assignedBarangayId]).coll
        /\ users' # users
        /\ UNCHANGED <<user, loginVars, studentsVars, adminVars, sessionVars>>

NextSession ==
    \/ onSubmit
    \/ LoginSettles
    \/ ReloadCompletes
    \/ FormInitializeSettles
    \/ ProtectedRequest
    \/ InitializeSettles
    \/ ClientNavigation
    \/ handleLogout
    \/ LogoutSettles
    \/ LoginNavigationCompletes
    \/ AccountChanges

SpecSession == SessionInit /\ [][NextSession]_vars


(***************************************************************************)
(* Properties of the login handler                                         *)
(***************************************************************************)
\* the request passed validation: body parsed, email and password non-empty
WellFormed == body.kind = "object" /\ Truthy(body.email) /\ Truthy(body.password)

\* the handler answered and met no connection or query fault
AnsweredStoreReachable == pc = "done" /\ storeFault = "none"

\* the stored documents the submitted email matches
MatchingUsers == {i \in DOMAIN users : MatchesEmail(body.email, users[i])}

\* C1: a well-formed request whose email matches no account, with the store
\* reachable, is answered 404 "User not found", whatever the password is
C1_UnknownEmailIsNotFound ==
    (AnsweredStoreReachable /\ WellFormed /\ MatchingUsers = {})
        => /\ response.status = 404
           /\ response.payload = [success |-> FALSE, error |-> "User not found"]

C1_Witness ==
    /\ AnsweredStoreReachable /\ WellFormed /\ MatchingUsers = {}
    /\ users # <<>>
    /\ body.password = JsNum("123")
    /\ response = NotFoundResponse

\* C2: with exactly one matching account with hash H, the answer is success
\* iff verify(password, H) is true, and BadPassword otherwise; no third outcome
C2_SingleMatchSuccessIffVerify ==
    (AnsweredStoreReachable /\ WellFormed /\ Cardinality(MatchingUsers) = 1)
        => LET H == users[CHOOSE i \in MatchingUsers : TRUE].password
               verified == /\ body.password.type = "string"
                           /\ H = BcryptHash(body.password.val)
           IN  IF verified
               THEN response.status = 200 /\ response.payload.success
               ELSE response = Failure(401, "Invalid Password")

\* C3: an empty or missing email, an empty or missing password, or an
\* unparseable body ends in a 400 validation failure and the store is never
\* contacted: no connection and no lookup at any point of the request
C3_InvalidRequest ==
    \/ body.kind \in {"unparseable", "null"}
    \/ body.email \in {JsUndefined, JsStr("")}
    \/ body.password \in {JsUndefined, JsStr("")}

C3_ValidationBeforeStore ==
    (pc # "idle" /\ C3_InvalidRequest)
        => /\ connectCalls = 0 /\ lookupCalls = 0 /\ verifyCalls = 0
           /\ pc \in {"json", "done"}
           /\ pc = "done" => (response.status = 400 /\ ~response.payload.success)

C3_Witness ==
    /\ pc = "done"
    /\ users # <<>>
    /\ body.kind = "object" /\ body.email = JsStr("a@x.com")
    /\ body.password = JsStr("")
    /\ response = PasswordRequiredResponse
    /\ connectCalls = 0 /\ lookupCalls = 0

\* C4: the payload of a successful login holds no password field of the
\* stored account
C4_SuccessOmitsPasswordHash ==
    (pc = "done" /\ response.payload.success)
        => "password" \notin DOMAIN response.payload.data

\* C5: when two or more accounts carry the submitted email, login yields the
\* Infra failure and never authenticates against the first match
C5_AmbiguousMatchIsInfra ==
    (AnsweredStoreReachable /\ WellFormed /\ Cardinality(MatchingUsers) >= 2)
        => response.status = 500 /\ ~response.payload.success

\* C6: a connection or query failure is answered with the Infra failure
\* (500, a database error text), never as NotFound, BadPassword or success
InfraErrors == {"Database connection failed. Please check your MongoDB configuration.",
                "Database query failed."}

C6_StoreErrorIsInfra ==
    (pc = "done" /\ storeFault # "none")
        => /\ response.status = 500
           /\ ~response.payload.success
           /\ response.payload.error \in InfraErrors
           /\ response.status \notin {NotFoundResponse.status, BadPasswordResponse.status}
           /\ response.payload.error \notin {NotFoundResponse.payload.error,
                                             BadPasswordResponse.payload.error}

C6_Witness ==
    /\ pc = "done" /\ storeFault = "query-throw"
    /\ FindByEmail(users, body.email) = <<>>
    /\ response.status = 500
    /\ response.payload.error = "Database query failed."

(***************************************************************************)
(* Properties of the barangay scope                                        *)
(***************************************************************************)
\* the ids, in order, of a list of barangays
Ids(bs) == [i \in DOMAIN bs |-> bs[i]._id]

\* the subsequence of bs from position i on whose ids equal S
RECURSIVE OnlyScope(_, _, _)
OnlyScope(bs, S, i) ==
    IF i > Len(bs) THEN <<>>
    ELSE IF bs[i]._id = S THEN <<bs[i]>> \o OnlyScope(bs, S, i + 1)
    ELSE OnlyScope(bs, S, i + 1)

\* C8: an admin with assigned scope S is shown exactly the barangays whose
\* id equals S; a master_admin is shown all barangays
C8_ScopeByRole ==
    /\ (user # <<>> /\ user[1].role = "admin"
            /\ user[1].assignedBarangayId # NoBarangay)
        => /\ tabs = OnlyScope(barangays, user[1].assignedBarangayId, 1)
           /\ \A i \in DOMAIN tabs : tabs[i]._id = user[1].assignedBarangayId
    /\ (user # <<>> /\ user[1].role = "master_admin") => tabs = barangays

C8_Witness ==
    /\ user # <<>> /\ user[1].role = "admin"
    /\ user[1].assignedBarangayId = "BrgyA"
    /\ Ids(barangays) = <<"BrgyB", "BrgyA", "BrgyC">>
    /\ Ids(tabs) = <<"BrgyA">>

\* C9: an admin with a missing or empty scope is never shown all barangays
C9_AdminWithoutScopeNotUnrestricted ==
    (user # <<>> /\ user[1].role = "admin"
        /\ user[1].assignedBarangayId = NoBarangay /\ barangays # <<>>)
        => tabs # barangays

(***************************************************************************)
(* Properties of the admin-management page                                 *)
(***************************************************************************)
\* C7: whoever the caller is, the delete operation is never invoked with the
\* id of an account whose role is master_admin
C7_MasterAdminNeverDeleted ==
    /\ \A k \in DOMAIN deleteCalls : deleteCalls[k].role # "master_admin"
    /\ \A t \in BagToSet(tasks) :
          t.kind = "delete" => RoleInStore(users, t.id) # "master_admin"

C7_Witness ==
    /\ deleteCalls # <<>> /\ deleteCalls[1].role = "admin"
    /\ \E j \in DOMAIN users : users[j].role = "master_admin"
    /\ \E j \in DOMAIN admins : admins[j].role = "master_admin"
    /\ user # <<>> /\ user[1].role = "admin"

\* C10: while the admin-management page is open with a resolved user who is
\* not a master_admin, a redirect to /dashboard is under way
C10_NonMasterIsRedirected ==
    (location = "/admin" /\ user # <<>> /\ user[1].role # "master_admin")
        => pendingNav = "/dashboard"

C10_Witness ==
    /\ location = "/admin"
    /\ user # <<>> /\ user[1].role = "admin"
    /\ pendingNav = "/dashboard"

(***************************************************************************)
(* Properties of the denial, the session and the login form                *)
(***************************************************************************)
\* C11: for an identity that is no master_admin (role admin, or no resolved
\* user) the admin page neither fetches the stored accounts nor invokes
\* create, update or delete: no authService method is called for it
C11_DenialIsTerminal == ~deniedCall

\* String.prototype.toLowerCase on the emails of EmailValues
LowerCased(s) == IF s = "A@x.com" THEN "a@x.com" ELSE s

\* C15: the email is case-normalized before the lookup: a request is answered
\* as the request with the lower-cased email and the same password is
C15_EmailCaseInsensitive ==
    (AnsweredStoreReachable /\ WellFormed /\ body.email.type = "string")
        => response = Decide(FindByEmail(users, JsStr(LowerCased(body.email.val))),
                             body.password)

\* the fixed caller-facing texts of the 500 responses
GenericErrors ==
    {"Database connection failed. Please check your MongoDB configuration.",
     "Database query failed.", "Failed to Authenticate User"}

\* C16: in production no response carries `details`, and the `error` text of
\* a 500 response is one of the fixed messages, never an exception's message
C16_NoDiagnosticsInProduction ==
    (nodeEnv = "production" /\ pc = "done")
        => /\ "details" \notin DOMAIN response.payload
           /\ response.status = 500 => response.payload.error \in GenericErrors

\* C17: with the store reachable and a string password, an unknown email is
\* answered 404 "User not found" and a known email whose first account fails
\* verification 401 "Invalid Password": status and text tell the two apart
C17_NotFoundAndBadPasswordDiffer ==
    (AnsweredStoreReachable /\ WellFormed /\ body.password.type = "string")
        => /\ MatchingUsers = {}
                => (response.status = 404 /\ response.payload.error = "User not found")
           /\ (MatchingUsers # {}
                /\ CompareSync(body.password, userData[1].password) = "false")
                => (response.status = 401
                    /\ response.payload.error = "Invalid Password")
           /\ response.status \in {401, 404}
                => (response.status = 404 <=> MatchingUsers = {})

\* a known email with a wrong password was answered
C17_Witness ==
    /\ AnsweredStoreReachable /\ WellFormed
    /\ body.password = JsStr("wrong")
    /\ MatchingUsers # {}
    /\ response = [status |-> 401,
                   payload |-> [success |-> FALSE, error |-> "Invalid Password"]]

\* C20: within one call the verifier runs at most once, only after the one
\* lookup completed without a store error and returned at least one account;
\* after a store error or a NotFound answer it has not run, and the answers
\* that depend on it (200, 401) are given only once it ran
C20_ChecksSequential ==
    /\ verifyCalls <= 1 /\ lookupCalls <= 1
    /\ verifyCalls > 0
        => /\ pc = "done" /\ lookupCalls = 1 /\ storeFault = "none"
           /\ Len(userData) >= 1
           /\ response.status # 404
    /\ (pc = "done" /\ (storeFault # "none" \/ response.status = 404))
        => verifyCalls = 0
    /\ (pc = "done" /\ response.status \in {200, 401}) => verifyCalls = 1

\* the verifier ran, after a lookup that found an account
C20_Witness ==
    pc = "done" /\ verifyCalls = 1 /\ lookupCalls = 1 /\ Len(userData) >= 1

(***************************************************************************)
(* Properties of concurrent account creation                               *)
(***************************************************************************)
\* the store holds at most one account per email
UniqueEmails(coll) ==
    \A i, j \in DOMAIN coll : coll[i].email = coll[j].email => i = j

\* register(data) of the suspended handler t settles in this step
Settles(t) ==
    /\ t.kind = "create" /\ t.stage = "registering"
    /\ CopiesIn(t, tasks') < CopiesIn(t, tasks)

EmailTaken(coll, email) == \E j \in DOMAIN coll : coll[j].email = email

\* C13: however two account-creation requests with the same email interleave,
\* the store never holds two accounts with one email: a request settling
\* while the email is free adds the one account with it (unless the call
\* itself failed), and a request settling once the email is taken changes
\* nothing and is refused with "Email already exists", or with the message of
\* the failure when the call itself failed
C13_OneAccountPerEmail ==
    /\ []UniqueEmails(users)
    /\ [][\A t \in BagToSet(tasks) :
            Settles(t) =>
                IF EmailTaken(users, t.data[1].email)
                THEN /\ users' = users
                     /\ t.live => submitError' \in {"Email already exists",
                                                    "Network error",
                                                    "Failed to create admin"}
                ELSE \/ users' = users
                     \/ /\ Len(users') = Len(users) + 1
                        /\ users'[Len(users')].email = t.data[1].email
                        /\ SubSeq(users', 1, Len(users)) = users]_vars

\* this console's request and another console's request carried the same new
\* email: the other one created the account, this one was refused
C13_Witness ==
    /\ location = "/admin"
    /\ submits = 1
    /\ submitError = "Email already exists"
    /\ Len(SelectSeq(users, LAMBDA d : d.email = "new@x.com")) = 1
    /\ \E t \in BagToSet(tasks) :
            /\ t.kind = "create" /\ t.stage = "reloading" /\ ~t.live
            /\ t.data[1].email = "new@x.com"

(***************************************************************************)
(* Properties of the session and the login form                            *)
(***************************************************************************)
\* C12: a request whose session validation failed renders no protected
\* content and is sent to /login: while the validation stands as failed
\* nothing protected is on screen and the redirect to /login is under way or
\* done, and the browser leaves for no other route unless a new page is
\* loaded; protected content is on screen only for a resolved identity
C12_NoContentAfterFailedValidation ==
    /\ [](lastRequest.validation = "failed"
            => /\ content = "none"
               /\ location = "/login" \/ pendingNav = "/login")
    /\ [](content = "children"
            => /\ user # <<>> /\ ~initializing
               /\ lastRequest.validation \in {"ok", "none"})
    /\ [][(lastRequest.validation = "failed" /\ location' # location)
            => (location' = "/login" \/ lastRequest'.validation = "pending")]_vars

\* the session of a deleted account requested a protected route: the layout
\* is still mounted on it, nothing rendered, the redirect under way
C12_Witness ==
    /\ session # <<>>
    /\ RoleInStore(users, session[1]) = "absent"
    /\ lastRequest.kind = "load" /\ lastRequest.validation = "failed"
    /\ content = "none"
    /\ location \in ProtectedPaths /\ pendingNav = "/login"

\* C14: every request to a protected route is served for the account as the
\* store holds it at that moment, or is rejected, never served for an
\* identity cached earlier
C14_RequestUsesCurrentAccount ==
    lastRequest.validation = "failed" \/ lastRequest.used = lastRequest.actual

\* the login calls of the form that resolved
ResolvedLogins == Len(SelectSeq(loginResults, LAMBDA r : r = "resolved"))

\* C19: the login form calls window.location.reload() once per login call
\* that resolved, never for one that rejected, whether or not an earlier
\* reload is still under way: the step in which a login rejects starts no
\* reload and leaves the stored error in the error box, where it stays until
\* the form is submitted again; a reload is started only in the step in which
\* a login resolves
C19_RejectedLoginDoesNotProceed ==
    /\ [](reloads = ResolvedLogins)
    /\ [](reloading => reloads > 0)
    /\ [][Len(loginResults') > Len(loginResults) =>
            /\ submitting # <<>>
            /\ IF loginResults'[Len(loginResults')] = "rejected"
               THEN /\ reloads' = reloads /\ reloading' = reloading
                    /\ authError' # ""
                    /\ ErrorBox(authError') = <<authError'>>
               ELSE reloads' = reloads + 1 /\ reloading']_vars
    /\ [][(reloads' # reloads \/ (reloading' /\ ~reloading)) =>
            /\ Len(loginResults') > Len(loginResults)
            /\ loginResults'[Len(loginResults')] = "resolved"]_vars
    /\ [][(ErrorBox(authError) # <<>> /\ authError' # authError) =>
            (submitting = <<>> /\ submitting' # <<>>)]_vars

\* a login resolved and, its reload still under way, the form was submitted
\* again and rejected: one reload, error shown
C19_Witness ==
    /\ loginResults = <<"resolved", "rejected">>
    /\ reloads = 1 /\ reloading
    /\ ErrorBox(authError) = <<"Invalid Password">>

(***************************************************************************)
(* Further properties of the login handler                                 *)
(***************************************************************************)
\* C21: no retry: the connection is awaited at most once and the query issued
\* at most once; a store fault ends the request at once with its 500
\* response, a connection fault before any query, and no verification follows
C21_NoRetryOnInfra ==
    /\ connectCalls <= 1 /\ lookupCalls <= 1
    /\ storeFault # "none"
        => /\ pc = "done"
           /\ response.status = 500
           /\ verifyCalls = 0
           /\ userData = <<>>
           /\ storeFault \in ConnectFaults => lookupCalls = 0

\* a query fault ended a request that had connected once and queried once
C21_Witness ==
    pc = "done" /\ storeFault = "query-throw" /\ connectCalls = 1 /\ lookupCalls = 1

\* C22: login is read-only on the store: no step of the handler, whatever
\* its outcome and wherever it stops, changes the stored accounts
C22_LoginReadOnly == [][users' = users]_vars

\* a request was answered with success over a non-empty store
C22_Witness == pc = "done" /\ response.status = 200 /\ users # <<>>

\* what the handler answers depends on the verifier
VerifierSays(v) ==
    /\ userData # <<>>
    /\ CompareSync(body.password, userData[1].password) = v

\* the one response of a request, by status
C24_StatusAgrees ==
    /\ response # <<>> <=> pc = "done"
    /\ pc = "done" =>
        /\ response.status \in {200, 400, 401, 404, 500}
        /\ response.payload.success <=> response.status = 200
        /\ response.status = 200 => (storeFault = "none" /\ VerifierSays("true"))
        /\ response.status = 400 => (~WellFormed /\ connectCalls = 0)
        /\ response.status = 404
            => (WellFormed /\ storeFault = "none" /\ lookupCalls = 1
                /\ userData = <<>>)
        /\ response.status = 401 => (storeFault = "none" /\ VerifierSays("false"))
        /\ response.status = 500 => (storeFault # "none" \/ VerifierSays("throw"))

\* C24: every request gets one response: the handler, once called, ends with
\* a response and none is set before or changed after; success is true
\* exactly with status 200, given only after a verified password; 400 is
\* given only for validation failures, 404 only for an empty lookup, 401 only
\* for a failed verification, 500 only for store faults and exceptions
C24_OneResponseStatusAgrees ==
    /\ []C24_StatusAgrees
    /\ [][response # <<>> => response' = response]_vars
    /\ (pc = "json") ~> (pc = "done")

\* a request was answered with a failed verification
C24_Witness ==
    pc = "done" /\ response.status = 401 /\ ~response.payload.success

\* C25: a success returns an account whose stored email is the submitted
\* email value and whose hash verifies the submitted password, whatever the
\* type of the submitted email
C25_SuccessAccountMatchesEmail ==
    (pc = "done" /\ response.status = 200)
        => /\ body.email.type = "string"
           /\ response.payload.data.email = body.email.val
           /\ CompareSync(body.password, response.payload.data.password) = "true"

(***************************************************************************)
(* Properties of the dialogs of the admin page                             *)
(***************************************************************************)
\* C23: in the create form a role of master_admin always goes with an empty
\* assignment, whatever roles and barangays were chosen before
C23_MasterAdminHasNoBarangay ==
    createRole = "master_admin" => createBarangay = NoBarangay

\* master_admin is selected in the open create dialog of a page whose
\* barangays are loaded, after an earlier submission was refused
C23_Witness ==
    /\ createRole = "master_admin" /\ createBarangay = NoBarangay
    /\ isCreateDialogOpen /\ ~isSubmitting
    /\ barangays # <<>>
    /\ submitError = "Email already exists"

\* handlers of one kind suspended at one await, mounted or not
Pending(B, kind, stage) ==
    LET S == {t \in BagToSet(B) : t.kind = kind /\ t.stage = stage}
    IN  BagCardinality([t \in S |-> CopiesIn(t, B)])

\* create and edit submissions whose handler is suspended on the mounted page
SubmissionsInFlight ==
    LET subs == {t \in BagToSet(tasks) : t.kind \in {"create", "edit"} /\ t.live}
        RECURSIVE Count(_)
        Count(S) == IF S = {} THEN 0
                    ELSE LET t == CHOOSE x \in S : TRUE
                         IN  CopiesIn(t, tasks) + Count(S \ {t})
    IN  Count(subs)

\* isSubmitting is true exactly while one create or edit submission is pending
C26_FlagTracksSubmission == SubmissionsInFlight = (IF isSubmitting THEN 1 ELSE 0)

Reloads(t) ==
    /\ t.kind = "create" /\ t.stage = "reloading"
    /\ CopiesIn(t, tasks') < CopiesIn(t, tasks)

\* C27: the step in which register settles neither closes the create dialog
\* nor resets the form nor reloads the list; when register failed (no account
\* was added) the handler ends there with submitError holding the failure
\* message, and when it succeeded the handler goes on to reload the list; the
\* dialog is closed and the form reset in the step in which that reload ends
C27_CreateClosesOnlyOnSuccess ==
    [][\A t \in BagToSet(tasks) :
        /\ Settles(t) =>
            /\ isCreateDialogOpen' = isCreateDialogOpen
            /\ createRole' = createRole /\ createBarangay' = createBarangay
            /\ admins' = admins
            /\ IF users' = users
               THEN /\ submitError' \in {"Email already exists", "Network error",
                                        "Failed to create admin"}
                    /\ \A u \in BagToSet(tasks') : u.kind # "create"
                    /\ ~isSubmitting'
               ELSE /\ submitError' = ""
                    /\ isSubmitting'
                    /\ \E u \in BagToSet(tasks') :
                            u.kind = "create" /\ u.stage = "reloading"
        /\ Reloads(t) =>
            /\ admins' \in {users, admins}
            /\ ~isCreateDialogOpen'
            /\ createRole' = "admin" /\ createBarangay' = NoBarangay]_vars

\* register threw on a form that assigns a barangay: the dialog is still open,
\* the form keeps its values and the list shows no new account
C27_Witness ==
    /\ isCreateDialogOpen /\ ~isSubmitting
    /\ submitError = "Failed to create admin"
    /\ createRole = "admin" /\ createBarangay # NoBarangay
    /\ submits = 1
    /\ admins = SeedUsers /\ users = SeedUsers

\* C28: a declined confirmation invokes no delete and leaves the store and the
\* list as they were; deleteStoredUser is invoked only in the step in which
\* the prompt was confirmed; the list reload of the delete handler starts
\* only when deleteStoredUser reported success, and the step in which the
\* delete settles does not change the list
C28_DeleteOnlyAfterConfirm ==
    [][/\ (lastConfirm' = "declined" /\ lastConfirm # "declined") =>
            /\ tasks' = tasks /\ deleteCalls' = deleteCalls
            /\ users' = users /\ admins' = admins
       /\ (\/ deleteCalls' # deleteCalls
           \/ Pending(tasks', "delete", "deleting") > Pending(tasks, "delete", "deleting")) =>
            lastConfirm' = "confirmed"
       /\ Pending(tasks', "delete", "reloading") > Pending(tasks, "delete", "reloading") =>
            \E t \in BagToSet(tasks) :
                /\ t.kind = "delete" /\ t.stage = "deleting"
                /\ DeleteStoredUser(users, t.id).success
                /\ users' = DeleteStoredUser(users, t.id).coll
       /\ Pending(tasks', "delete", "deleting") < Pending(tasks, "delete", "deleting") =>
            admins' = admins]_vars

\* the prompt of a listed account was declined: no delete was ever invoked
C28_Witness ==
    /\ location = "/admin"
    /\ lastConfirm = "declined"
    /\ deleteCalls = <<>> /\ submits = 0
    /\ admins = users /\ users = SeedUsers
    /\ Pending(tasks, "delete", "deleting") = 0

(***************************************************************************)
(* Properties of the protected layout                                     *)
(***************************************************************************)
\* the logout calls of the layout that resolved
ResolvedLogouts == Len(SelectSeq(logoutResults, LAMBDA r : r = "resolved"))

\* C29: handleLogout has called router.push('/login') exactly once per logout
\* call that resolved, so never before a logout completed and never for one
\* that threw; the step in which a logout throws starts no navigation, the
\* step in which one resolves starts the navigation to /login, and both leave
\* the browser on the route it shows; a navigation to /login is started by a
\* logout that resolved or by the guard after a validation that failed only,
\* and the browser arrives at /login only by a navigation started before
C29_LogoutThenNavigate ==
    /\ [](pushes = ResolvedLogouts)
    /\ [][Len(logoutResults') > Len(logoutResults) =>
            /\ logoutsPending > 0
            /\ location' = location
            /\ IF logoutResults'[Len(logoutResults')] = "rejected"
               THEN pushes' = pushes /\ pendingNav' = pendingNav
               ELSE pushes' = pushes + 1 /\ pendingNav' = "/login"]_vars
    /\ [][pushes' # pushes => Len(logoutResults') > Len(logoutResults)]_vars
    /\ [][(pendingNav' = "/login" /\ pendingNav # "/login") =>
            \/ pushes' = pushes + 1
            \/ lastRequest' # lastRequest /\ lastRequest'.validation = "failed"]_vars
    /\ [][(location' = "/login" /\ location # "/login") =>
            pendingNav = "/login"]_vars

\* a logout threw and the next one resolved: one navigation to /login
\* started, the browser still on the protected route
C29_Witness ==
    /\ logoutResults = <<"rejected", "resolved">>
    /\ pushes = 1 /\ pendingNav = "/login"
    /\ location \in ProtectedPaths /\ user = <<>>

\* the entries of a navigation list
Entries(list) == {list[i] : i \in DOMAIN list}

\* C30: the mounted layout offers Admin Management exactly to a master_admin:
\* its list holds the four common entries, followed by the Admin Management
\* entry when and only when the role of the user the store holds is
\* master_admin; for role admin and for no user it is the four common entries
C30_AdminEntryIffMaster ==
    LET common == <<[name |-> "Dashboard", href |-> "/dashboard"],
                    [name |-> "Student Master List", href |-> "/students"],
                    [name |-> "Student Score Summary", href |-> "/progress"],
                    [name |-> "Settings", href |-> "/settings"]>>
        adminEntry == [name |-> "Admin Management", href |-> "/admin"]
        isMaster == user # <<>> /\ user[1].role = "master_admin"
    IN  (lastRequest.kind # "none" /\ location # "/login") =>
            /\ SubSeq(nav, 1, 4) = common
            /\ adminEntry \in Entries(nav) <=> isMaster
            /\ ~isMaster => nav = common

\* a master_admin has logged out: the layout, still mounted until the
\* navigation to /login completes, has rendered for no user
C30_Witness ==
    /\ location \in ProtectedPaths /\ pendingNav = "/login"
    /\ user = <<>> /\ ~initializing
    /\ logoutResults # <<>>
    /\ logoutResults[Len(logoutResults)] = "resolved"
    /\ lastRequest.used # <<>> /\ lastRequest.used[1].role = "master_admin"
    /\ Len(nav) = 4
====
